---- MODULE Spec2Model ----
(***************************************************************************)
(* Session / auth-gating subsystem of the Osheen Oracle dashboard:         *)
(* the axios request client (utils/api.ts), the persisted credential       *)
(* store (window.localStorage), the AuthProvider context, the login        *)
(* screen, the dashboard guards and the logout entry points.               *)
(*                                                                         *)
(* One step of the model is one event-loop task of the browser: a user     *)
(* event handler, a React commit with its effects, a timer callback, or    *)
(* the continuation of an awaited request together with the interceptors   *)
(* that run before it.                                                     *)
(***************************************************************************)
EXTENDS Integers, Sequences, FiniteSets, Bags, TLC

VARIABLES
    localStorage,   \* window.localStorage: key -> string or None
    defaultsAuth,   \* api.defaults.headers.common["Authorization"] or None
    pathname,       \* window.location.pathname
    ctx,            \* AuthProvider state: mounted, user, token, isLoading
    loginPage,      \* LoginPage instance: refs, state and timers
    dash,           \* what DashboardLayout shows: unmounted/spinner/children
    inflight,       \* bag of the HTTP requests dispatched and not yet settled
    lastOp          \* what the last task did (observable outcome of a handler)

vars == <<localStorage, defaultsAuth, pathname, ctx, loginPage, dash,
          inflight, lastOp>>

-----------------------------------------------------------------------------
(* Bounds and input domains *)

MaxInflight == 2

None == "none"

NoUser == [_id |-> None, name |-> None]

Users == {[_id |-> "1", name |-> "A"], [_id |-> "2", name |-> "B"]}

\* the bodies { token, user } the login endpoint answers with
LoginBodies == {[token |-> "t1", user |-> [_id |-> "1", name |-> "A"]],
                [token |-> "t2", user |-> [_id |-> "2", name |-> "B"]]}

NoBody == [token |-> None, user |-> NoUser]

\* 0 stands for a call without response: transport failure or the 10 s timeout
Statuses == {200, 401, 500, 0}

\* the login screen alone tells status 500 from the other 5xx
LoginStatuses == Statuses \cup {503}

Methods == {"get", "post", "put", "delete"}

LoginPath == "/login"

DashboardPath == "/dashboard"

Paths == {LoginPath, DashboardPath}

LSKeys == {"token", "user", "theme"}

\* form inputs, as sequences of characters
Emails == { <<>>, <<" ">>, <<"b", "a", "d">>, <<"a", "@", "b">>,
            <<"a", "@", "b", ".", "c">>, <<" ", "a", "@", "b", ".", "c">> }

Passwords == { <<>>, <<" ">>, <<"s">> }

-----------------------------------------------------------------------------
(* JavaScript helpers *)

Truthy(v) == v # None /\ v # ""

IsSpace(c) == c = " "

RECURSIVE trimStart(_)
trimStart(s) == IF s # <<>> /\ IsSpace(Head(s)) THEN trimStart(Tail(s)) ELSE s

RECURSIVE trimEnd(_)
trimEnd(s) ==
    IF s # <<>> /\ IsSpace(s[Len(s)]) THEN trimEnd(SubSeq(s, 1, Len(s) - 1)) ELSE s

trim(s) == trimEnd(trimStart(s))

\* every character of s[a..b] is in the class [^\s@]
PlainRun(s, a, b) == \A k \in a..b : ~IsSpace(s[k]) /\ s[k] # "@"

\* /^[^\s@]+@[^\s@]+\.[^\s@]+$/.test(s)
emailRegexTest(s) ==
    \E i \in 1..Len(s) : \E j \in 1..Len(s) :
        /\ s[i] = "@" /\ s[j] = "."
        /\ 1 < i /\ i + 1 < j /\ j < Len(s)
        /\ PlainRun(s, 1, i - 1)
        /\ PlainRun(s, i + 1, j - 1)
        /\ PlainRun(s, j + 1, Len(s))

JSONstringify(u) == "{_id:" \o u._id \o ",name:" \o u.name \o "}"

JSONparse(s) == CHOOSE u \in Users : JSONstringify(u) = s

-----------------------------------------------------------------------------
(* window.localStorage *)

getItem(ls, k) == IF k \in DOMAIN ls THEN ls[k] ELSE None

setItem(ls, k, v) == [x \in DOMAIN ls |-> IF x = k THEN v ELSE ls[x]]

removeItem(ls, k) == [x \in DOMAIN ls |-> IF x = k THEN None ELSE ls[x]]

clear(ls) == [x \in DOMAIN ls |-> None]

-----------------------------------------------------------------------------
(* utils/api.ts *)

Bearer(token) == "Bearer " \o token

\* a request interceptor that attaches the bare token, without the scheme
RequestInterceptorBareToken(headerAuth, ls) ==
    IF Truthy(getItem(ls, "token")) THEN getItem(ls, "token") ELSE headerAuth

\* the request interceptor; headerAuth is the Authorization value the request
\* config holds after axios merged the instance defaults into it
RequestInterceptor(headerAuth, ls) ==
    IF Truthy(getItem(ls, "token")) THEN Bearer(getItem(ls, "token")) ELSE headerAuth

\* does the response interceptor's error branch end the session
Api401Fires(status, currentPath) == status = 401 /\ currentPath # LoginPath

\* a response interceptor that forgets the cached user record
ResponseInterceptorStorageKeepsUser(ls, status, currentPath) ==
    IF status = 401 /\ currentPath # LoginPath THEN removeItem(ls, "token") ELSE ls

\* the response interceptor's writes to localStorage
ResponseInterceptorStorage(ls, status, currentPath) ==
    IF Api401Fires(status, currentPath)
    THEN removeItem(removeItem(ls, "token"), "user")
    ELSE ls

Nav(via, to) == [via |-> via, to |-> to]

\* the response interceptor's navigation
ResponseInterceptorNavs(status, currentPath) ==
    IF Api401Fires(status, currentPath)
    THEN << Nav("location.replace", LoginPath) >>
    ELSE << >>

\* a setAuthToken with its test inverted
setAuthTokenInverted(token) == IF Truthy(token) THEN None ELSE Bearer(token)

setAuthToken(token) == IF Truthy(token) THEN Bearer(token) ELSE None

\* fetchData, lines 63-80: resolve with response.data on a 2xx answer, log
\* and rethrow the error otherwise
fetchData(status) == IF status \in 200..299 THEN "resolved" ELSE "rejected"

\* postData, lines 85-97
postData(status) == IF status \in 200..299 THEN "resolved" ELSE "rejected"

\* putData, lines 102-114
putData(status) == IF status \in 200..299 THEN "resolved" ELSE "rejected"

\* deleteData, lines 119-128
deleteData(status) == IF status \in 200..299 THEN "resolved" ELSE "rejected"

NoError == [status |-> -1, response |-> FALSE]

\* the AxiosError the transport produces for an answer outside 2xx, or for a
\* call without answer (error.response undefined)
TransportError(status) == [status |-> status, response |-> status # 0]

\* the response interceptor's error handler ends with Promise.reject(error),
\* line 47
ResponseInterceptorError(e) == e

\* a catch block that throws a fresh Error built from the message
RethrowWrapped(e) == [status |-> -1, response |-> FALSE]

\* the catch block of the four helpers: log, then throw err (lines 75-78,
\* 92-95, 109-112, 123-126)
Rethrow(e) == e

\* what the helper of the request's method hands to its caller
HelperResult(method, status) ==
    CASE method = "get"    -> fetchData(status)
      [] method = "post"   -> postData(status)
      [] method = "put"    -> putData(status)
      [] method = "delete" -> deleteData(status)

\* the error the caller's catch block receives
HelperError(method, status) ==
    IF HelperResult(method, status) = "rejected"
    THEN Rethrow(ResponseInterceptorError(TransportError(status)))
    ELSE NoError

CanDispatch(infl) == BagCardinality(infl) < MaxInflight

\* the request as it leaves api.get/post/put/delete, after the interceptor
Request(kind, method, ls, auth) ==
    [kind |-> kind, method |-> method, auth |-> RequestInterceptor(auth, ls),
     orphan |-> FALSE]

Dispatch(infl, kind, method, ls, auth) ==
    infl (+) SetToBag({Request(kind, method, ls, auth)})

\* a client that puts a settled request back in flight
SettleAndRetry(infl, r) == infl

\* the request settles
Settle(infl, r) == infl (-) SetToBag({r})

-----------------------------------------------------------------------------
(* AuthProvider (contexts/AuthContext), render and mount effect *)

CtxInitial == [mounted |-> FALSE, user |-> NoUser, token |-> None, isLoading |-> TRUE]

StoredSession(ls) == Truthy(getItem(ls, "token")) /\ Truthy(getItem(ls, "user"))

\* the mount effect, lines 69-80: the context's state after it
CtxMountEffect(c, ls) ==
    [mounted   |-> TRUE,
     user      |-> IF StoredSession(ls) THEN JSONparse(getItem(ls, "user")) ELSE c.user,
     token     |-> IF StoredSession(ls) THEN getItem(ls, "token") ELSE c.token,
     isLoading |-> FALSE]

\* the mount effect's call of setAuthToken, line 76
CtxMountAuth(auth, ls) ==
    IF StoredSession(ls) THEN setAuthToken(getItem(ls, "token")) ELSE auth

\* The provider sits in the root layout: it mounts in the first commit after
\* a page load, together with the page below it, and stays mounted across
\* router navigations.
CtxAfterCommit == IF ctx.mounted THEN ctx ELSE CtxMountEffect(ctx, localStorage)

AuthAfterCommit ==
    IF ctx.mounted THEN defaultsAuth ELSE CtxMountAuth(defaultsAuth, localStorage)

-----------------------------------------------------------------------------
(* LoginPage before its first commit and after its unmount *)

LoginUnmounted ==
    [mounted |-> FALSE, isMounted |-> FALSE, isCheckingAuth |-> TRUE,
     loading |-> FALSE, authTimer |-> None, redirectTimer |-> FALSE]

-----------------------------------------------------------------------------
(* Route guards, render and effect *)

\* DashboardLayout's render, lines 25-45
DashRender(c) ==
    IF c.isLoading THEN "spinner"
    ELSE IF c.user = NoUser THEN "null"
    ELSE "children"

\* DashboardLayout's effect, lines 19-23
DashEffect(c) ==
    IF ~c.isLoading /\ c.user = NoUser
    THEN << Nav("router.push", LoginPath) >>
    ELSE << >>

\* ProtectedLayout's render, lines 14-30
ProtRender(ls) == IF Truthy(getItem(ls, "token")) THEN "children" ELSE "null"

\* ProtectedLayout's effect, lines 20-24
ProtEffect(ls) ==
    IF ~Truthy(getItem(ls, "token"))
    THEN << Nav("router.replace", LoginPath) >>
    ELSE << >>

-----------------------------------------------------------------------------
(* The record of a task *)

\* op: the handler that ran; kind, method, status, body: the request it sent
\* or settled; result: what the request helper handed to the handler;
\* handler: how the handler ended ("ok", "threw", or "discarded" when it
\* dropped the response); toast: the notification shown; navs: navigations
\* issued; sent: requests the handler sent; rendered: what a (re)rendered
\* screen shows; input: whether submitted credentials satisfy the constraints,
\* or navigator.onLine when a login response is handled;
\* error: the error object the request helper threw to the handler
Op(op, kind, method, status, body, result, handler, toast, sent, rendered, input) ==
    [op |-> op, kind |-> kind, method |-> method, status |-> status,
     body |-> body, path |-> "-", result |-> result, handler |-> handler,
     toast |-> toast, navs |-> << >>, sent |-> sent, rendered |-> rendered,
     input |-> input, error |-> NoError]

Idle == Op("Init", "-", "-", -1, NoBody, "-", "-", "-", 0, "-", "-")

\* a handler that settles no request and sends none
Plain(op, handler, rendered) ==
    Op(op, "-", "-", -1, NoBody, "-", handler, "-", 0, rendered, "-")

\* a handler that sends one request
Sending(op, kind, method, input) ==
    Op(op, kind, method, -1, NoBody, "pending", "-", "-", 1, "-", input)

\* the continuation of a settled request
Settled(op, r, status, body, handler, toast) ==
    [Op(op, r.kind, r.method, status, body, HelperResult(r.method, status),
        handler, toast, 0, "-", "-")
        EXCEPT !.error = HelperError(r.method, status)]

-----------------------------------------------------------------------------
(* Navigation and commit of a task's writes *)

HardNavs(navs) == SelectSeq(navs, LAMBDA n : n.via = "location.replace" \/ n.via = "reload")

\* an unmount that re-stamps the pending login requests with the header of
\* the moment
OrphanedRestampsHeader(infl) ==
    LET mark(r) == IF r.kind = "login"
                   THEN [r EXCEPT !.orphan = TRUE,
                                  !.auth = RequestInterceptor(defaultsAuth, localStorage)]
                   ELSE r
    IN  [t \in {mark(r) : r \in BagToSet(infl)} |->
            BagCardinality([r \in {x \in BagToSet(infl) : mark(x) = t} |->
                               CopiesIn(r, infl)])]

\* requests of the login screen keep running after it unmounts; their
\* continuation then sees isMounted.current = false
Orphaned(infl) ==
    LET mark(r) == IF r.kind = "login" THEN [r EXCEPT !.orphan = TRUE] ELSE r
        was(t)  == [t EXCEPT !.orphan = FALSE]
    IN  [t \in {mark(r) : r \in BagToSet(infl)} |->
            CopiesIn(t, infl)
            + (IF t.kind = "login" /\ t.orphan /\ was(t) # t
               THEN CopiesIn(was(t), infl) ELSE 0)]

\* A task ends: its writes are committed, DashboardLayout re-renders when the
\* context values it depends on changed, a Header that mounts with the
\* dashboard chrome starts fetchUserProfile (Header, lines 38-53), and the
\* navigations the task issued are carried out. A document navigation
\* (location.replace, reload) starts a new page: module state, components,
\* timers and pending requests are gone and only localStorage survives. A
\* router navigation swaps the page component.
Commit(ls2, auth2, ctx2, lp2, dash2, infl2, navs, op) ==
    LET depsChanged == ctx2.user # ctx.user \/ ctx2.isLoading # ctx.isLoading
        rerender == dash2 # "unmounted" /\ dash # "unmounted" /\ depsChanged
        dash3    == IF rerender THEN DashRender(ctx2) ELSE dash2
        chrome   == dash3 = "children" /\ dash # "children"
        infl3    == IF chrome
                    THEN Dispatch(infl2, "headerProfile", "get", ls2, auth2)
                    ELSE infl2
        allNavs  == IF rerender THEN navs \o DashEffect(ctx2) ELSE navs
        hard     == HardNavs(allNavs)
        target   == IF hard # << >> THEN hard[Len(hard)].to
                    ELSE IF allNavs # << >> THEN allNavs[Len(allNavs)].to
                    ELSE pathname
        issued   == SelectSeq(allNavs, LAMBDA n : n.via # "reload" /\ n.via # "history")
    IN  /\ chrome => CanDispatch(infl2)
        /\ localStorage' = ls2
        /\ pathname' = target
        /\ lastOp' = [op EXCEPT !.navs = issued, !.path = pathname,
                                !.rendered = IF rerender THEN dash3 ELSE @]
        /\ IF hard # << >>
           THEN /\ defaultsAuth' = None
                /\ ctx' = CtxInitial
                /\ loginPage' = LoginUnmounted
                /\ dash' = "unmounted"
                /\ inflight' = EmptyBag
           ELSE /\ defaultsAuth' = auth2
                /\ ctx' = ctx2
                /\ loginPage' = IF target # LoginPath THEN LoginUnmounted ELSE lp2
                /\ dash' = IF target # DashboardPath \/ dash3 = "null"
                           THEN "unmounted" ELSE dash3
                /\ inflight' = IF target # LoginPath /\ loginPage.mounted
                               THEN Orphaned(infl3) ELSE infl3

-----------------------------------------------------------------------------
\* the storage of a browser that never ran the application
Init_ls == [k \in LSKeys |-> None]

Init ==
    /\ localStorage = Init_ls
    /\ defaultsAuth = None
    /\ pathname \in Paths
    /\ ctx = CtxInitial
    /\ loginPage = LoginUnmounted
    /\ dash = "unmounted"
    /\ inflight = EmptyBag
    /\ lastOp = Idle

-----------------------------------------------------------------------------
(* app/login/page.tsx *)

\* first commit of LoginPage: state initialisers and the two effects,
\* lines 11-44
LoginMount ==
    /\ pathname = LoginPath
    /\ ~loginPage.mounted
    /\ Commit(localStorage, AuthAfterCommit, CtxAfterCommit,
              [mounted |-> TRUE, isMounted |-> TRUE, isCheckingAuth |-> TRUE,
               loading |-> FALSE,
               authTimer |-> IF Truthy(getItem(localStorage, "token"))
                             THEN "token" ELSE "notoken",
               redirectTimer |-> FALSE],
              dash, inflight, << >>,
              Plain("LoginMount", "ok", "checking"))

\* an auth check that always ends in the form
LoginAuthTimerShowsForm ==
    /\ loginPage.mounted
    /\ loginPage.authTimer # None
    /\ Commit(localStorage, defaultsAuth, ctx,
              [loginPage EXCEPT !.authTimer = None, !.isCheckingAuth = FALSE],
              dash, inflight, << >>,
              Plain("LoginAuthTimer", "ok", "form"))

\* the 100 ms timer of the auth-check effect, lines 35-41
LoginAuthTimer ==
    /\ loginPage.mounted
    /\ loginPage.authTimer # None
    /\ LET redirect == loginPage.authTimer = "token" /\ loginPage.isMounted
           showForm == ~redirect /\ loginPage.isMounted
       IN Commit(localStorage, defaultsAuth, ctx,
                 [loginPage EXCEPT !.authTimer = None,
                                   !.isCheckingAuth = IF showForm THEN FALSE ELSE @],
                 dash, inflight,
                 IF redirect THEN << Nav("router.replace", DashboardPath) >> ELSE << >>,
                 Plain("LoginAuthTimer", "ok", IF showForm THEN "form" ELSE "checking"))

\* the constraints on login input: both non-blank, email of the basic shape
ValidCredentials(email, password) ==
    /\ trim(email) # << >>
    /\ trim(password) # << >>
    /\ emailRegexTest(email)

InputClass(email, password) ==
    IF ValidCredentials(email, password) THEN "valid" ELSE "invalid"

\* handleSubmit's validation, lines 53-63: the message it rejects with
LoginValidation(email, password) ==
    IF trim(email) = << >> \/ trim(password) = << >>
    THEN "Please fill in all fields"
    ELSE IF ~emailRegexTest(email)
    THEN "Please enter a valid email address"
    ELSE "-"

\* a handleSubmit without the early return of line 51
LoginSubmitIgnoresLoading(email, password) ==
    /\ loginPage.mounted
    /\ ~loginPage.isCheckingAuth
    /\ LET verdict == LoginValidation(email, password)
           sends   == verdict = "-"
       IN /\ sends => CanDispatch(inflight)
          /\ Commit(localStorage, defaultsAuth, ctx,
                    IF sends THEN [loginPage EXCEPT !.loading = TRUE] ELSE loginPage,
                    dash,
                    IF sends
                    THEN Dispatch(inflight, "login", "post", localStorage, defaultsAuth)
                    ELSE inflight,
                    << >>,
                    Op("LoginSubmit", "login", "post", -1, NoBody,
                       IF sends THEN "pending" ELSE "-", "ok",
                       verdict,
                       IF sends THEN 1 ELSE 0, "form",
                       InputClass(email, password)))

\* handleSubmit up to the await, lines 47-77
LoginSubmit(email, password) ==
    /\ loginPage.mounted
    /\ ~loginPage.isCheckingAuth
    /\ LET verdict == LoginValidation(email, password)
           sends   == ~loginPage.loading /\ verdict = "-"
       IN /\ sends => CanDispatch(inflight)
          /\ Commit(localStorage, defaultsAuth, ctx,
                    IF sends THEN [loginPage EXCEPT !.loading = TRUE] ELSE loginPage,
                    dash,
                    IF sends
                    THEN Dispatch(inflight, "login", "post", localStorage, defaultsAuth)
                    ELSE inflight,
                    << >>,
                    Op("LoginSubmit", "login", "post", -1, NoBody,
                       IF sends THEN "pending" ELSE "-", "ok",
                       IF loginPage.loading THEN "-" ELSE verdict,
                       IF sends THEN 1 ELSE 0, "form",
                       InputClass(email, password)))

\* a handleSubmit that stores the session only when none is stored yet
LoginStorageFirstWriteWins(ls, body) ==
    IF Truthy(getItem(ls, "token"))
    THEN ls
    ELSE setItem(setItem(ls, "token", body.token), "user", JSONstringify(body.user))

\* handleSubmit's writes to localStorage on success, lines 82-83
LoginStorage(ls, body) ==
    setItem(setItem(ls, "token", body.token), "user", JSONstringify(body.user))

\* the message of handleSubmit's catch block, lines 101-111; online is
\* navigator.onLine
LoginFailureToast(status, online) ==
    IF status = 401 THEN "Invalid email or password"
    ELSE IF status = 500 THEN "Server error. Please try again later."
    ELSE IF ~online THEN "No internet connection"
    ELSE "Login failed. Please try again."

\* a handleSubmit that schedules the redirect whatever the outcome
LoginArmsRedirectAlways(success, armed) == TRUE

\* handleSubmit schedules the redirect on the success path only, lines 91-95;
\* armed tells whether an earlier success already scheduled one
LoginArmsRedirect(success, armed) == IF success THEN TRUE ELSE armed

\* handleSubmit after the await, lines 79-116, behind postData and the
\* response interceptor
LoginResponse(r, status, body, online) ==
    /\ BagIn(r, inflight)
    /\ r.kind = "login"
    /\ LET ls1     == ResponseInterceptorStorage(localStorage, status, pathname)
           navs1   == ResponseInterceptorNavs(status, pathname)
           alive   == ~r.orphan /\ loginPage.isMounted
           success == alive /\ HelperResult(r.method, status) = "resolved"
       IN Commit(IF success THEN LoginStorage(ls1, body) ELSE ls1,
                 IF success THEN setAuthToken(body.token) ELSE defaultsAuth,
                 ctx,
                 IF alive
                 THEN [loginPage EXCEPT !.loading = FALSE,
                                        !.redirectTimer = LoginArmsRedirect(success, @)]
                 ELSE loginPage,
                 dash, Settle(inflight, r), navs1,
                 [Settled("LoginResponse", r, status, body,
                          IF alive THEN "ok" ELSE "discarded",
                          IF ~alive THEN "-"
                          ELSE IF success THEN "Login successful! Redirecting..."
                          ELSE LoginFailureToast(status, online))
                     EXCEPT !.input = IF online THEN "online" ELSE "offline"])

\* the 1000 ms timer set after a successful login, lines 91-95
LoginRedirectTimer ==
    /\ loginPage.mounted
    /\ loginPage.redirectTimer
    /\ Commit(localStorage, defaultsAuth, ctx,
              [loginPage EXCEPT !.redirectTimer = FALSE],
              dash, inflight,
              IF loginPage.isMounted
              THEN << Nav("router.push", DashboardPath) >> ELSE << >>,
              Plain("LoginRedirectTimer", "ok", "-"))

-----------------------------------------------------------------------------
(* AuthProvider's operations *)

\* login up to the await, lines 83-89
CtxLogin(email, password) ==
    /\ ctx.mounted
    /\ CanDispatch(inflight)
    /\ Commit(localStorage, defaultsAuth, [ctx EXCEPT !.isLoading = TRUE],
              loginPage, dash,
              Dispatch(inflight, "ctxLogin", "post", localStorage, defaultsAuth),
              << >>,
              Sending("CtxLogin", "ctxLogin", "post", InputClass(email, password)))

\* a login that persists the token and forgets the user record
CtxLoginStorageTokenOnly(ls, body) == setItem(ls, "token", body.token)

\* login's writes to localStorage on success, lines 90-91
CtxLoginStorage(ls, body) ==
    setItem(setItem(ls, "token", body.token), "user", JSONstringify(body.user))

\* login after the await, lines 90-99
CtxLoginResponse(r, status, body) ==
    /\ BagIn(r, inflight)
    /\ r.kind = "ctxLogin"
    /\ LET ls1     == ResponseInterceptorStorage(localStorage, status, pathname)
           navs1   == ResponseInterceptorNavs(status, pathname)
           success == HelperResult(r.method, status) = "resolved"
       IN Commit(IF success THEN CtxLoginStorage(ls1, body) ELSE ls1,
                 IF success THEN setAuthToken(body.token) ELSE defaultsAuth,
                 [ctx EXCEPT !.isLoading = FALSE,
                             !.user  = IF success THEN body.user ELSE @,
                             !.token = IF success THEN body.token ELSE @],
                 loginPage, dash, Settle(inflight, r), navs1,
                 Settled("CtxLoginResponse", r, status, body,
                         IF success THEN "ok" ELSE "threw", "-"))

\* logout, lines 103-110
CtxLogout ==
    /\ ctx.mounted
    /\ Commit(removeItem(removeItem(localStorage, "token"), "user"),
              setAuthToken(None),
              [ctx EXCEPT !.user = NoUser, !.token = None],
              loginPage, dash, inflight,
              << Nav("router.push", LoginPath) >>,
              Plain("CtxLogout", "ok", "-"))

-----------------------------------------------------------------------------
(* Route guards *)

\* first commit of DashboardLayout (app/dashboard/layout.tsx, lines 14-45);
\* after a page load it shows the spinner until the provider's effect ran
DashMount ==
    /\ pathname = DashboardPath
    /\ dash = "unmounted"
    /\ Commit(localStorage, AuthAfterCommit, CtxAfterCommit, loginPage,
              DashRender(CtxAfterCommit), inflight, DashEffect(CtxAfterCommit),
              Plain("DashMount", "ok", DashRender(CtxAfterCommit)))

\* first commit of ProtectedLayout (lines 6-31) under ClientLayout, which
\* wraps every path but /login
ProtMount ==
    /\ pathname # LoginPath
    /\ Commit(localStorage, defaultsAuth, ctx, loginPage, dash, inflight,
              ProtEffect(localStorage),
              Plain("ProtMount", "ok", ProtRender(localStorage)))

-----------------------------------------------------------------------------
(* Dashboard chrome and screens: Header, Sidebar, Profile, CRUD pages *)

\* Header.fetchUserProfile's catch, lines 59-63: its writes to localStorage
HeaderProfileStorage(ls, status) == IF status = 401 THEN clear(ls) ELSE ls

\* Header.fetchUserProfile's catch, lines 59-63: its navigation
HeaderProfileNavs(status) ==
    IF status = 401 THEN << Nav("location.replace", LoginPath) >> ELSE << >>

\* Header.fetchUserProfile after the await, lines 54-76
HeaderProfileResponse(r, status) ==
    /\ BagIn(r, inflight)
    /\ r.kind = "headerProfile"
    /\ Commit(HeaderProfileStorage(
                  ResponseInterceptorStorage(localStorage, status, pathname), status),
              defaultsAuth, ctx, loginPage, dash, Settle(inflight, r),
              ResponseInterceptorNavs(status, pathname) \o HeaderProfileNavs(status),
              Settled("HeaderProfileResponse", r, status, NoBody, "ok", "-"))

\* Header.handleLogout up to the await, lines 94-97
HeaderLogout ==
    /\ dash = "children"
    /\ CanDispatch(inflight)
    /\ Commit(localStorage, defaultsAuth, ctx, loginPage, dash,
              Dispatch(inflight, "headerLogout", "get", localStorage, defaultsAuth),
              << >>,
              Sending("HeaderLogout", "headerLogout", "get", "-"))

\* Header.handleLogout's finally block, lines 100-103: localStorage after it
HeaderLogoutStorage(ls, status) == clear(ls)

\* Header.handleLogout's finally block, line 106
HeaderLogoutNavs(status) == << Nav("location.replace", LoginPath) >>

\* Header.handleLogout after the await: catch and finally, lines 98-108
HeaderLogoutResponse(r, status) ==
    /\ BagIn(r, inflight)
    /\ r.kind = "headerLogout"
    /\ Commit(HeaderLogoutStorage(
                  ResponseInterceptorStorage(localStorage, status, pathname), status),
              defaultsAuth, ctx, loginPage, dash, Settle(inflight, r),
              ResponseInterceptorNavs(status, pathname) \o HeaderLogoutNavs(status),
              Settled("HeaderLogoutResponse", r, status, NoBody, "ok", "-"))

\* Sidebar.handleLogout up to the await, lines 456-460
SidebarLogout ==
    /\ dash = "children"
    /\ CanDispatch(inflight)
    /\ Commit(localStorage, defaultsAuth, ctx, loginPage, dash,
              Dispatch(inflight, "sidebarLogout", "get", localStorage, defaultsAuth),
              << >>,
              Sending("SidebarLogout", "sidebarLogout", "get", "-"))

\* a Sidebar.handleLogout whose catch block only logs
SidebarLogoutStorageCatchLogsOnly(ls, status) ==
    IF fetchData(status) = "resolved"
    THEN removeItem(removeItem(removeItem(ls, "token"), "authToken"), "user")
    ELSE ls

\* Sidebar.handleLogout: localStorage after the try block (lines 462-464) or
\* after the catch block (line 472)
SidebarLogoutStorage(ls, status) ==
    IF fetchData(status) = "resolved"
    THEN removeItem(removeItem(removeItem(ls, "token"), "authToken"), "user")
    ELSE clear(ls)

\* Sidebar.handleLogout: the default header after the try block (line 466) or
\* after the catch block, which leaves it alone
SidebarLogoutAuth(auth, status) ==
    IF fetchData(status) = "resolved" THEN setAuthToken(None) ELSE auth

\* Sidebar.handleLogout: router.push on both paths, lines 469 and 473
SidebarLogoutNavs(status) == << Nav("router.push", LoginPath) >>

\* Sidebar.handleLogout after the await, lines 462-474
SidebarLogoutResponse(r, status) ==
    /\ BagIn(r, inflight)
    /\ r.kind = "sidebarLogout"
    /\ Commit(SidebarLogoutStorage(
                  ResponseInterceptorStorage(localStorage, status, pathname), status),
              SidebarLogoutAuth(defaultsAuth, status),
              ctx, loginPage, dash, Settle(inflight, r),
              ResponseInterceptorNavs(status, pathname) \o SidebarLogoutNavs(status),
              Settled("SidebarLogoutResponse", r, status, NoBody, "ok", "-"))

\* a Logout button that also aborts the requests in flight
ProfileLogoutCancels ==
    /\ dash = "children"
    /\ Commit(clear(localStorage), defaultsAuth, ctx, loginPage, dash, EmptyBag,
              << Nav("router.push", LoginPath) >>,
              Plain("ProfileLogout", "ok", "-"))

\* the Logout button of the profile screen
ProfileLogout ==
    /\ dash = "children"
    /\ Commit(clear(localStorage), defaultsAuth, ctx, loginPage, dash, inflight,
              << Nav("router.push", LoginPath) >>,
              Plain("ProfileLogout", "ok", "-"))

\* a dashboard screen calls fetchData / postData / putData / deleteData
DataCall(method) ==
    /\ dash = "children"
    /\ CanDispatch(inflight)
    /\ Commit(localStorage, defaultsAuth, ctx, loginPage, dash,
              Dispatch(inflight, "data", method, localStorage, defaultsAuth),
              << >>,
              Sending("DataCall", "data", method, "-"))

\* the screen's continuation: it shows the data or an error notification
DataResponse(r, status) ==
    /\ BagIn(r, inflight)
    /\ r.kind = "data"
    /\ Commit(ResponseInterceptorStorage(localStorage, status, pathname),
              defaultsAuth, ctx, loginPage, dash, Settle(inflight, r),
              ResponseInterceptorNavs(status, pathname),
              Settled("DataResponse", r, status, NoBody, "ok",
                      IF HelperResult(r.method, status) = "resolved"
                      THEN "-" ELSE "Failed to load"))

-----------------------------------------------------------------------------
(* The user's browser *)

\* reload, or a URL typed into the address bar
Reload(p) ==
    Commit(localStorage, defaultsAuth, ctx, loginPage, dash, inflight,
           << Nav("reload", p) >>, Plain("Reload", "-", "-"))

\* back / forward inside the single-page app
HistoryNav(p) ==
    /\ p # pathname
    /\ Commit(localStorage, defaultsAuth, ctx, loginPage, dash, inflight,
              << Nav("history", p) >>, Plain("HistoryNav", "-", "-"))

-----------------------------------------------------------------------------
Requests == BagToSet(inflight)

Next ==
    \/ LoginMount
    \/ LoginAuthTimer
    \/ \E email \in Emails, password \in Passwords : LoginSubmit(email, password)
    \/ \E r \in Requests, body \in LoginBodies : LoginResponse(r, 200, body, TRUE)
    \/ \E r \in Requests, status \in LoginStatuses \ {200}, online \in BOOLEAN :
          LoginResponse(r, status, NoBody, online)
    \/ LoginRedirectTimer
    \/ \E email \in Emails, password \in Passwords : CtxLogin(email, password)
    \/ \E r \in Requests, body \in LoginBodies : CtxLoginResponse(r, 200, body)
    \/ \E r \in Requests, status \in Statuses \ {200} :
          CtxLoginResponse(r, status, NoBody)
    \/ CtxLogout
    \/ DashMount
    \/ ProtMount
    \/ \E r \in Requests, status \in Statuses : HeaderProfileResponse(r, status)
    \/ HeaderLogout
    \/ \E r \in Requests, status \in Statuses : HeaderLogoutResponse(r, status)
    \/ SidebarLogout
    \/ \E r \in Requests, status \in Statuses : SidebarLogoutResponse(r, status)
    \/ ProfileLogout
    \/ \E method \in Methods : DataCall(method)
    \/ \E r \in Requests, status \in Statuses : DataResponse(r, status)
    \/ \E p \in Paths : Reload(p)
    \/ \E p \in Paths : HistoryNav(p)

Spec == Init /\ [][Next]_vars

\* The browser runs a timer callback that stays scheduled: the 100 ms timer of
\* the login screen's auth check and the 1000 ms timer of its redirect fire
\* unless the screen unmounts first.
LiveSpec == Spec /\ WF_vars(LoginAuthTimer) /\ WF_vars(LoginRedirectTimer)

-----------------------------------------------------------------------------
(* The dashboard on its own: a page loaded at /dashboard with a session      *)
(* stored, its data calls, its logouts and the browser's navigation.         *)

\* the state a reload of /dashboard leaves after a login stored a session
DashInit ==
    /\ \E body \in LoginBodies : localStorage = LoginStorage(Init_ls, body)
    /\ defaultsAuth = None
    /\ pathname = DashboardPath
    /\ ctx = CtxInitial
    /\ loginPage = LoginUnmounted
    /\ dash = "unmounted"
    /\ inflight = EmptyBag
    /\ lastOp = Idle

\* the continuation of some pending request of the dashboard runs
DashAnswered ==
    \/ \E r \in Requests, status \in Statuses : HeaderProfileResponse(r, status)
    \/ \E r \in Requests, status \in Statuses : HeaderLogoutResponse(r, status)
    \/ \E r \in Requests, status \in Statuses : SidebarLogoutResponse(r, status)
    \/ \E r \in Requests, status \in Statuses : DataResponse(r, status)

DashNext ==
    \/ DashMount
    \/ CtxLogout
    \/ HeaderLogout
    \/ SidebarLogout
    \/ ProfileLogout
    \/ \E method \in Methods : DataCall(method)
    \/ DashAnswered
    \/ \E p \in Paths : Reload(p)
    \/ \E p \in Paths : HistoryNav(p)

\* The instance is created with timeout: 10000 (utils/api.ts, line 8): a
\* pending request is settled, by an answer, a transport error or the
\* timeout, so while requests are pending a continuation eventually runs.
DashSpec == DashInit /\ [][DashNext]_vars /\ WF_vars(DashAnswered)

-----------------------------------------------------------------------------
(* The login screen on its own, in both builds. next.config sets             *)
(* reactStrictMode: the development build runs every effect of a freshly     *)
(* mounted component, then its cleanup, then the effect again, keeping state *)
(* and refs; the production build runs the effects once.                     *)

\* first commit of LoginPage in the development build: the cleanup of lines
\* 21-25 sets isMounted.current to false and nothing sets it back, the
\* cleanup of line 43 cancels the first timer and the second run of the
\* auth-check effect, lines 28-41, arms a new one
LoginMountStrict ==
    /\ pathname = LoginPath
    /\ ~loginPage.mounted
    /\ Commit(localStorage, AuthAfterCommit, CtxAfterCommit,
              [mounted |-> TRUE, isMounted |-> FALSE, isCheckingAuth |-> TRUE,
               loading |-> FALSE,
               authTimer |-> IF Truthy(getItem(localStorage, "token"))
                             THEN "token" ELSE "notoken",
               redirectTimer |-> FALSE],
              dash, inflight, << >>,
              Plain("LoginMountStrict", "ok", "checking"))

StrictNext ==
    \/ LoginMount
    \/ LoginMountStrict
    \/ LoginAuthTimer
    \/ \E email \in Emails, password \in Passwords : LoginSubmit(email, password)
    \/ \E r \in Requests, body \in LoginBodies : LoginResponse(r, 200, body, TRUE)
    \/ \E r \in Requests, status \in LoginStatuses \ {200}, online \in BOOLEAN :
          LoginResponse(r, status, NoBody, online)
    \/ LoginRedirectTimer
    \/ \E p \in Paths : Reload(p)
    \/ \E p \in Paths : HistoryNav(p)

\* the 100 ms timer fires unless the screen unmounts first
StrictSpec == Init /\ [][StrictNext]_vars /\ WF_vars(LoginAuthTimer)

-----------------------------------------------------------------------------
(* The credential store on its own: every writer of localStorage, applied in *)
(* any order to the storage the previous writer left.                        *)

\* the record of one write
Write(op, status, body, path) ==
    [Op(op, "-", "-", status, body, "-", "ok", "-", 0, "-", "-") EXCEPT !.path = path]

StoreStep(ls2, w) ==
    /\ localStorage' = ls2
    /\ lastOp' = w
    /\ UNCHANGED <<defaultsAuth, pathname, ctx, loginPage, dash, inflight>>

\* LoginPage.handleSubmit, lines 82-83
StoreLogin(body) ==
    StoreStep(LoginStorage(localStorage, body), Write("StoreLogin", 200, body, "-"))

\* AuthProvider.login, lines 90-91
StoreCtxLogin(body) ==
    StoreStep(CtxLoginStorage(localStorage, body), Write("StoreCtxLogin", 200, body, "-"))

\* the response interceptor, lines 35-45, for a response that arrives at path p
StoreInterceptor(status, p) ==
    StoreStep(ResponseInterceptorStorage(localStorage, status, p),
              Write("StoreInterceptor", status, NoBody, p))

\* AuthProvider.logout, lines 104-105
StoreCtxLogout ==
    StoreStep(removeItem(removeItem(localStorage, "token"), "user"),
              Write("StoreCtxLogout", -1, NoBody, "-"))

\* Sidebar.handleLogout, lines 462-464 and 472
StoreSidebarLogout(status) ==
    StoreStep(SidebarLogoutStorage(localStorage, status),
              Write("StoreSidebarLogout", status, NoBody, "-"))

\* Header.handleLogout, line 103
StoreHeaderLogout(status) ==
    StoreStep(HeaderLogoutStorage(localStorage, status),
              Write("StoreHeaderLogout", status, NoBody, "-"))

\* Header.fetchUserProfile's catch, lines 59-63
StoreHeaderProfile(status) ==
    StoreStep(HeaderProfileStorage(localStorage, status),
              Write("StoreHeaderProfile", status, NoBody, "-"))

\* Header.toggleDarkMode, lines 80-91: the write to localStorage; darkMode is
\* the component's state before the click
toggleDarkModeStorage(ls, darkMode) ==
    IF ~darkMode THEN setItem(ls, "theme", "dark") ELSE setItem(ls, "theme", "light")

StoreToggleDarkMode(darkMode) ==
    StoreStep(toggleDarkModeStorage(localStorage, darkMode),
              Write("StoreToggleDarkMode", -1, NoBody, "-"))

\* the profile page's Logout button, lines 475-483
StoreProfileLogout ==
    StoreStep(clear(localStorage), Write("StoreProfileLogout", -1, NoBody, "-"))

StoreNext ==
    \/ \E darkMode \in BOOLEAN : StoreToggleDarkMode(darkMode)
    \/ \E body \in LoginBodies : StoreLogin(body)
    \/ \E body \in LoginBodies : StoreCtxLogin(body)
    \/ \E status \in Statuses, p \in Paths : StoreInterceptor(status, p)
    \/ StoreCtxLogout
    \/ \E status \in Statuses : StoreSidebarLogout(status)
    \/ \E status \in Statuses : StoreHeaderLogout(status)
    \/ \E status \in Statuses \ {200} : StoreHeaderProfile(status)
    \/ StoreProfileLogout

StoreSpec == Init /\ [][StoreNext]_vars

-----------------------------------------------------------------------------
(* Properties *)

Token == getItem(localStorage, "token")

User == getItem(localStorage, "user")

\* the last task issued a navigation to p
IssuedNavTo(p) == \E i \in 1..Len(lastOp.navs) : lastOp.navs[i].to = p

NavsTo(p) == SelectSeq(lastOp.navs, LAMBDA n : n.to = p)

\* how many pending requests of the bag went out as r did (same caller,
\* method and headers), whether or not their screen is still mounted
Pending(infl, r) ==
    CopiesIn([r EXCEPT !.orphan = FALSE], infl) + CopiesIn([r EXCEPT !.orphan = TRUE], infl)

ResponseOps ==
    {"LoginResponse", "CtxLoginResponse", "HeaderProfileResponse",
     "HeaderLogoutResponse", "SidebarLogoutResponse", "DataResponse"}

\* C1: when a request of the request client is answered with 401 while the
\* current path is not /login, then after its continuation ran the persisted
\* token and user are absent, a navigation to /login has been issued and the
\* request helper handed the error to its caller.
C1_Unauthorized401EndsSession ==
    (lastOp.op \in ResponseOps /\ lastOp.status = 401 /\ lastOp.path # LoginPath)
        => /\ Token = None
           /\ User = None
           /\ IssuedNavTo(LoginPath)
           /\ lastOp.result = "rejected"

C1_Witness ==
    /\ lastOp.op = "DataResponse"
    /\ lastOp.method = "delete"
    /\ lastOp.status = 401
    /\ lastOp.path = DashboardPath
    /\ Token = None

\* C2: after a login whose response { token, user } the login screen or the
\* context processed as a success, the persisted token is that token, the
\* persisted user is the serialised user (and parses back to it), and the
\* default Authorization header is "Bearer <token>".
C2_LoginSuccessStoresSession ==
    (/\ lastOp.op \in {"LoginResponse", "CtxLoginResponse"}
     /\ lastOp.status = 200
     /\ lastOp.handler = "ok")
        => /\ Token = lastOp.body.token
           /\ User = JSONstringify(lastOp.body.user)
           /\ JSONparse(User) = lastOp.body.user
           /\ defaultsAuth = Bearer(lastOp.body.token)

C2_Witness ==
    /\ lastOp.op = "LoginResponse"
    /\ lastOp.status = 200
    /\ lastOp.handler = "ok"
    /\ lastOp.body.token = "t2"
    /\ defaultsAuth = "Bearer t2"

\* C3: a failed login of the login screen (401, 5xx or no response) leaves
\* the persisted token, the persisted user and the default Authorization
\* header as they were before the response, and issues no navigation.
C3_FailedLoginLeavesState ==
    [][ (lastOp'.op = "LoginResponse" /\ lastOp'.status # 200)
            => /\ getItem(localStorage', "token") = Token
               /\ getItem(localStorage', "user") = User
               /\ defaultsAuth' = defaultsAuth
               /\ lastOp'.navs = << >> ]_vars

ValidationToasts == {"Please fill in all fields", "Please enter a valid email address"}

\* C4: a login attempt whose email or password is blank, or whose email does
\* not have the basic shape, sends no request and is rejected with a
\* validation error, at every login entry point.
C4_InvalidLoginNeverSends ==
    lastOp.input = "invalid" => (lastOp.sent = 0 /\ lastOp.toast \in ValidationToasts)

\* C5: when the remote logout call of the Sidebar or of the Header fails, the
\* logout still ends with the persisted token and user absent and a
\* navigation to /login issued, and the handler ends without an exception.
C5_LogoutSurvivesRemoteFailure ==
    (/\ lastOp.op \in {"SidebarLogoutResponse", "HeaderLogoutResponse"}
     /\ lastOp.result = "rejected")
        => /\ Token = None
           /\ User = None
           /\ IssuedNavTo(LoginPath)
           /\ lastOp.handler = "ok"

C5_Witness ==
    /\ lastOp.op = "SidebarLogoutResponse"
    /\ lastOp.status = 0
    /\ lastOp.result = "rejected"
    /\ Token = None

\* C6: every completed logout of the Sidebar, the Header and the context
\* leaves the persisted token absent, the persisted user absent and the
\* default Authorization header removed, and issues a navigation to /login.
C6_LogoutClearsEverything ==
    lastOp.op \in {"SidebarLogoutResponse", "HeaderLogoutResponse", "CtxLogout"}
        => /\ Token = None
           /\ User = None
           /\ defaultsAuth = None
           /\ IssuedNavTo(LoginPath)

\* C7: in every reachable state the default Authorization header is
\* "Bearer t" exactly when the persisted token is t and absent exactly when
\* no token is persisted.
C7_HeaderMatchesToken ==
    defaultsAuth = IF Truthy(Token) THEN Bearer(Token) ELSE None

GuardMounts == {"DashMount", "ProtMount"}

\* C8: with no persisted credential, a guard that mounts does not render the
\* protected children, and unless it still shows the loading placeholder it
\* issues exactly one redirect to /login.
C8_NoCredentialNoChildren ==
    (lastOp.op \in GuardMounts /\ ~Truthy(Token))
        => /\ lastOp.rendered # "children"
           /\ lastOp.rendered = "null" => Len(NavsTo(LoginPath)) = 1

\* C9: with a persisted credential, a guard that mounts does not turn the
\* visitor away: it renders the children (at most after the loading
\* placeholder), sends no request first and issues no redirect to /login.
C9_CredentialRendersChildren ==
    (lastOp.op \in GuardMounts /\ Truthy(Token))
        => /\ lastOp.rendered \in {"children", "spinner"}
           /\ lastOp.sent = 0
           /\ ~IssuedNavTo(LoginPath)

\* C10: every request that leaves the request client while a token t is
\* persisted carries "Authorization: Bearer t", whatever its method.
C10_RequestsCarryBearer ==
    [][ \A r \in BagToSet(inflight') :
            (Pending(inflight', r) > Pending(inflight, r)
             /\ Truthy(getItem(localStorage', "token")))
                => r.auth = Bearer(getItem(localStorage', "token")) ]_vars

C10_Witness ==
    \E r \in Requests :
        /\ r.kind = "data"
        /\ r.method = "delete"
        /\ Token = "t1"
        /\ r.auth = "Bearer t1"

StoreSets == {"StoreLogin", "StoreCtxLogin"}

\* does the write recorded in w clear the credential
StoreClears(w) ==
    \/ w.op \in {"StoreCtxLogout", "StoreSidebarLogout", "StoreHeaderLogout",
                 "StoreProfileLogout"}
    \/ w.op = "StoreInterceptor" /\ w.status = 401 /\ w.path # LoginPath
    \/ w.op = "StoreHeaderProfile" /\ w.status = 401

\* C12: after any sequence of credential writes the persisted credential, as
\* the guard reads it, is the result of the most recent write: the token of
\* the last login stored, none after a clear, the previous value after a
\* write that does not touch it; and repeating the write just made leaves the
\* persisted token and user as they are.
C12_LastWriteWins ==
    [][ /\ lastOp'.op \in StoreSets =>
              /\ getItem(localStorage', "token") = lastOp'.body.token
              /\ getItem(localStorage', "user") = JSONstringify(lastOp'.body.user)
        /\ StoreClears(lastOp') =>
              /\ getItem(localStorage', "token") = None
              /\ ProtRender(localStorage') = "null"
        /\ (lastOp'.op \notin StoreSets /\ ~StoreClears(lastOp')) =>
              getItem(localStorage', "token") = Token
        /\ lastOp' = lastOp =>
              /\ getItem(localStorage', "token") = Token
              /\ getItem(localStorage', "user") = User ]_vars

\* a second login has replaced the credential of the first
C12_Witness ==
    /\ lastOp.op = "StoreLogin"
    /\ lastOp.body.token = "t2"
    /\ Token = "t2"
    /\ ProtRender(localStorage) = "children"

\* C13: for every call that fails (an answer outside 2xx, or no answer) the
\* request helper rejects and its caller receives the error the transport
\* produced, unchanged; in the 401 case off the login path this happens after
\* the persisted token and user were removed.
C13_HelpersRethrow ==
    (lastOp.op \in ResponseOps /\ lastOp.status \notin 200..299)
        => /\ lastOp.result = "rejected"
           /\ lastOp.error = TransportError(lastOp.status)
           /\ (lastOp.status = 401 /\ lastOp.path # LoginPath)
                 => (Token = None /\ User = None)

C13_Witness ==
    /\ lastOp.op = "DataResponse"
    /\ lastOp.method = "put"
    /\ lastOp.status = 401
    /\ lastOp.path = DashboardPath
    /\ lastOp.error = [status |-> 401, response |-> TRUE]
    /\ User = None

\* the task recorded in w is a login that succeeded
IsLoginSuccess(w) ==
    /\ w.op \in {"LoginResponse", "CtxLoginResponse"}
    /\ w.status = 200
    /\ w.handler = "ok"

LogoutOps == {"SidebarLogoutResponse", "HeaderLogoutResponse", "CtxLogout", "ProfileLogout"}

\* the task recorded in w is a logout, or a continuation in which the
\* request client's 401 handler fired
IsLogoutOr401(w) ==
    \/ w.op \in LogoutOps
    \/ w.op \in ResponseOps /\ w.status = 401 /\ w.path # LoginPath

\* the task recorded in w ended in a document navigation
IsPageLoad(w) ==
    \/ w.op = "Reload"
    \/ \E i \in 1..Len(w.navs) : w.navs[i].via = "location.replace"

\* C14: the persisted token appears or changes only in a task that is a
\* successful login, and the persisted token, the persisted user and the
\* default header are removed only in a task that is a logout or in which
\* the request client's 401 handler fired (a page load, which starts from a
\* fresh default header, aside); no other handler writes or clears them.
C14_OnlyStatedWriters ==
    [][ /\ (getItem(localStorage', "token") # Token
            /\ Truthy(getItem(localStorage', "token"))) => IsLoginSuccess(lastOp')
        /\ \/ Truthy(Token) /\ ~Truthy(getItem(localStorage', "token"))
           \/ Truthy(User) /\ ~Truthy(getItem(localStorage', "user"))
           \/ defaultsAuth # None /\ defaultsAuth' = None /\ ~IsPageLoad(lastOp')
           => IsLogoutOr401(lastOp') ]_vars

\* C15: between tasks the persisted token is present exactly when the
\* persisted user is present.
C15_TokenAndUserTogether == Truthy(Token) <=> Truthy(User)

\* a session was stored and a logout has removed it again
C15_Witness ==
    /\ lastOp.op = "SidebarLogoutResponse"
    /\ lastOp.status = 200
    /\ defaultsAuth = None
    /\ ~Truthy(Token)
    /\ ~Truthy(User)

\* the login screen was entered with a token persisted and its auth check has
\* not run yet
LoginVisitedWithToken == loginPage.mounted /\ loginPage.authTimer = "token"

C17_RedirectAfterLoginStored ==
    /\ [][ (lastOp'.op = "LoginResponse" /\ IsLoginSuccess(lastOp'))
             => /\ loginPage'.redirectTimer
                /\ getItem(localStorage', "token") = lastOp'.body.token
                /\ getItem(localStorage', "user") = JSONstringify(lastOp'.body.user)
                /\ defaultsAuth' = Bearer(lastOp'.body.token) ]_vars
    /\ [][ (loginPage'.redirectTimer /\ ~loginPage.redirectTimer)
             => (lastOp'.op = "LoginResponse" /\ IsLoginSuccess(lastOp')) ]_vars
    /\ [][ (lastOp'.op = "LoginResponse" /\ ~IsLoginSuccess(lastOp'))
             => ~IssuedNavTo(DashboardPath)' ]_vars
    /\ [][ lastOp'.op = "LoginRedirectTimer"
             => /\ loginPage.redirectTimer
                /\ lastOp'.navs = << Nav("router.push", DashboardPath) >> ]_vars
    /\ (loginPage.redirectTimer ~>
          \/ lastOp.op = "LoginRedirectTimer" /\ IssuedNavTo(DashboardPath)
          \/ ~loginPage.mounted)

C17_Witness ==
    /\ lastOp.op = "LoginRedirectTimer"
    /\ IssuedNavTo(DashboardPath)
    /\ pathname = DashboardPath
    /\ Token = "t1"
    /\ defaultsAuth = "Bearer t1"

\* how many requests of one caller are in flight
KindCount(infl, k) ==
    BagCardinality([r \in {x \in BagToSet(infl) : x.kind = k} |-> CopiesIn(r, infl)])

\* C18: a call of a request helper puts exactly one request in flight, and
\* the continuation of a request, whatever its outcome (2xx, 401, 5xx, no
\* answer), takes exactly that request out of flight and puts none of the
\* same caller back: nothing is re-issued or queued.
C18_OneRequestPerCall ==
    [][ /\ lastOp'.sent = 1 =>
              /\ KindCount(inflight', lastOp'.kind) = KindCount(inflight, lastOp'.kind) + 1
              /\ BagCardinality(inflight') = BagCardinality(inflight) + 1
        /\ lastOp'.op \in ResponseOps =>
              \/ inflight' = EmptyBag
              \/ KindCount(inflight', lastOp'.kind) = KindCount(inflight, lastOp'.kind) - 1 ]_vars

\* a failed call has settled and nothing is in flight on a page that is
\* still the same
C18_Witness ==
    /\ lastOp.op = "DataResponse"
    /\ lastOp.method = "post"
    /\ lastOp.status = 500
    /\ lastOp.navs = << >>
    /\ dash = "children"
    /\ inflight = EmptyBag

\* C19: a failed login handled by the login screen shows the message of its
\* kind of failure: invalid credentials for 401, the server-error message
\* for every 5xx status, the offline message for a call without answer while
\* offline, and the generic message for the rest.
C19_LoginFailureMessages ==
    (lastOp.op = "LoginResponse" /\ lastOp.handler = "ok" /\ lastOp.status # 200)
        => lastOp.toast =
              IF lastOp.status = 401 THEN "Invalid email or password"
              ELSE IF lastOp.status \in 500..599
                   THEN "Server error. Please try again later."
              ELSE IF lastOp.input = "offline" THEN "No internet connection"
              ELSE "Login failed. Please try again."

\* C20: a guard that mounts while a token is persisted renders the children
\* (at most after the loading placeholder) without asking the server, and
\* leaves the persisted token and user alone; the session ends in the
\* continuation of the first request answered with 401, after which token
\* and user are absent and a redirect to /login has been issued.
C20_StaleTokenPassesGuard ==
    [][ /\ (lastOp'.op \in GuardMounts /\ Truthy(Token)) =>
              /\ lastOp'.rendered \in {"children", "spinner"}
              /\ lastOp'.sent = 0
        /\ lastOp'.op \in GuardMounts =>
              /\ getItem(localStorage', "token") = Token
              /\ getItem(localStorage', "user") = User
        /\ (lastOp'.op \in ResponseOps /\ lastOp'.status = 401
            /\ lastOp'.path # LoginPath) =>
              /\ ~Truthy(getItem(localStorage', "token"))
              /\ ~Truthy(getItem(localStorage', "user"))
              /\ IssuedNavTo(LoginPath)' ]_vars

\* the task recorded in w removed the credential without loading a page
IsClearInPage(w) == IsLogoutOr401(w) /\ ~IsPageLoad(w)

C22_CheckingOnlyAtMount ==
    /\ [][ (~ctx.mounted /\ ctx'.mounted) => ~ctx'.isLoading ]_vars
    /\ [][ (ctx.mounted /\ ~ctx.isLoading /\ ctx'.mounted)
             => (~ctx'.isLoading /\ dash' # "spinner") ]_vars

\* the request whose continuation the step runs went out under a credential
\* that is not the one persisted now
SettlesStaleRequest ==
    /\ lastOp'.op \in ResponseOps
    /\ Truthy(Token)
    /\ \E r \in BagToSet(inflight) :
          r.kind = lastOp'.kind /\ r.method = lastOp'.method
    /\ \A r \in BagToSet(inflight) :
          (r.kind = lastOp'.kind /\ r.method = lastOp'.method)
              => (r.auth # None /\ r.auth # Bearer(Token))

\* C23: a 401 answer to a request that went out under an earlier credential
\* leaves the token and the user that a later login stored in place.
C23_Stale401SparesNewSession ==
    [][ (SettlesStaleRequest /\ lastOp'.status = 401)
            => /\ getItem(localStorage', "token") = Token
               /\ getItem(localStorage', "user") = User ]_vars

\* C24: a request dispatched while no token is persisted carries no
\* Authorization header, and one dispatched while a token is persisted
\* carries that token: the token a logout or a 401 clear removed is never
\* sent again.
C24_RemovedTokenNeverSent ==
    [][ \A r \in BagToSet(inflight') :
            Pending(inflight', r) > Pending(inflight, r)
                => r.auth = IF Truthy(getItem(localStorage', "token"))
                            THEN Bearer(getItem(localStorage', "token"))
                            ELSE None ]_vars

\* C25: the dashboard guard never answers the login screen's redirect to
\* /dashboard with a redirect back to /login while the persisted session is
\* what it was when the login screen redirected.
C25_NoRedirectLoop ==
    [][ ~ /\ lastOp.op = "LoginAuthTimer"
          /\ IssuedNavTo(DashboardPath)
          /\ lastOp'.op = "DashMount"
          /\ IssuedNavTo(LoginPath)'
          /\ Truthy(Token)
          /\ localStorage' = localStorage ]_vars

\* C26: once the provider has finished its initial check, the context's user
\* is non-null exactly when a token and a user are persisted, and its token
\* is then the persisted one.
C26_ContextAgreesWithStorage ==
    (ctx.mounted /\ ~ctx.isLoading)
        => /\ (ctx.user # NoUser) <=> StoredSession(localStorage)
           /\ ctx.user # NoUser => ctx.token = Token

\* C27: a login screen mounted with no credential persisted leaves its
\* checking placeholder and shows the form (unless it unmounts first), in
\* the production build and in the development build that runs the effects,
\* their cleanup and the effects again.
C27_FormEventuallyShown ==
    (loginPage.mounted /\ loginPage.authTimer = "notoken")
        ~> (~loginPage.mounted \/ ~loginPage.isCheckingAuth)

\* C28: a login response that arrives after the login screen has unmounted
\* has no effect: it persists no token and no user, sets no default
\* Authorization header, shows no notification and issues no navigation,
\* whether the login succeeded or failed.
C28_OrphanedLoginDiscarded ==
    [][ (lastOp'.op = "LoginResponse" /\ lastOp'.handler = "discarded")
            => /\ Truthy(getItem(localStorage', "token"))
                    => getItem(localStorage', "token") = Token
               /\ Truthy(getItem(localStorage', "user"))
                    => getItem(localStorage', "user") = User
               /\ defaultsAuth' \in {defaultsAuth, None}
               /\ lastOp'.toast = "-"
               /\ lastOp'.navs = << >> ]_vars

\* the pending login requests of the login screen that is mounted now
LivePending(infl) ==
    BagCardinality([r \in {x \in BagToSet(infl) : x.kind = "login" /\ ~x.orphan}
                       |-> CopiesIn(r, infl)])

\* C29: at most one login request is in flight; a submit made while a login
\* request is pending sends nothing; once the request has completed with
\* the screen still mounted, loading is off and a valid submit sends again.
C29_OneLoginInFlight ==
    /\ [](KindCount(inflight, "login") <= 1)
    /\ [][ (lastOp'.op = "LoginSubmit" /\ KindCount(inflight, "login") > 0)
              => (lastOp'.sent = 0 /\ inflight' = inflight) ]_vars
    /\ [][ (lastOp'.op = "LoginResponse" /\ lastOp'.handler = "ok"
                /\ loginPage'.mounted)
              => ~loginPage'.loading ]_vars

\* C29: a mounted login screen has at most one login request of its own in
\* flight, and loading is on exactly while it has one; a submit made while
\* that request is pending sends nothing and a valid submit made while none
\* is pending sends one; a request left pending by an earlier instance of
\* the screen does not count.
C29_OneLoginPerMountedScreen ==
    /\ [](LivePending(inflight) <= 1)
    /\ [](loginPage.mounted /\ loginPage.isMounted
            => (loginPage.loading <=> LivePending(inflight) = 1))
    /\ [][ (lastOp'.op = "LoginSubmit" /\ LivePending(inflight) > 0)
              => (lastOp'.sent = 0 /\ inflight' = inflight) ]_vars
    /\ [][ (lastOp'.op = "LoginSubmit" /\ LivePending(inflight) = 0
                /\ lastOp'.input = "valid")
              => (lastOp'.sent = 1 /\ LivePending(inflight') = 1) ]_vars
    /\ [][ (lastOp'.op = "LoginResponse" /\ lastOp'.handler = "ok"
                /\ loginPage'.mounted)
              => ~loginPage'.loading ]_vars

\* a valid submit made while the screen's request is pending sent nothing
C29_Witness ==
    /\ lastOp.op = "LoginSubmit"
    /\ lastOp.input = "valid"
    /\ lastOp.sent = 0
    /\ loginPage.loading
    /\ LivePending(inflight) = 1

\* C30: a write that ends the session (the 401 handler's clear, any of the
\* logouts) leaves the keys of localStorage that are not session state, the
\* theme preference, as they were.
C30_SessionEndKeepsOtherKeys ==
    [][ StoreClears(lastOp')
            => getItem(localStorage', "theme") = getItem(localStorage, "theme") ]_vars

====
